---- MODULE Spec2Model ----
(***************************************************************************)
(* A model of The Big Picture's tag resolution (trunk/metainfofile.py) and *)
(* of its TIFF/Exif data type codec (trunk/ifddatatypes.py).               *)
(*                                                                         *)
(* Python values are tagged records, so that an integer, a string, None    *)
(* and False stay distinct values with Python's truth value: 0, "", None   *)
(* and False are false in a condition, and "x is not False" holds of 0.    *)
(* The outcome of a call is Ok(value) or Err(exception).                   *)
(***************************************************************************)
EXTENDS Integers, Sequences, FiniteSets, TLC

VARIABLES
  attrs,    \* the MetaInfoFile instance's attributes: name -> None or a block
  fields,   \* fields[b][r]: the field map of record r of block b (tag num -> stored entry)
  last,     \* the last call made: its name, the block it reached, its arguments
  result,   \* the outcome of the last call: Ok(value) or Err(exception)
  call,     \* the call the block delegated to a record during the last call (or NoCall)
  codec     \* the last codec call: descriptor, byte order, input and outcome

vars == <<attrs, fields, last, result, call, codec>>

----------------------------------------------------------------------------
(* Python values *)

PyInt(n) == [t |-> "int", v |-> n]
PyStr(s) == [t |-> "str", v |-> s]
PyNone == [t |-> "none"]
PyBool(b) == [t |-> "bool", v |-> b]
PyFalse == PyBool(FALSE)
\* a float is named by its IEEE-754 image, most significant byte first
PyFloat(ieee) == [t |-> "float", v |-> ieee]
\* a list or tuple
PyList(items) == [t |-> "list", v |-> items]
\* the float 1.5: a value that is neither an integer nor a string
Float15 == PyFloat(<<63, 248, 0, 0, 0, 0, 0, 0>>)

\* the truth value Python gives x in "if (x):"
Truthy(x) ==
  CASE x.t = "int" -> x.v # 0
    [] x.t = "str" -> x.v # ""
    [] x.t = "bool" -> x.v
    [] x.t = "none" -> FALSE
    [] x.t = "list" -> x.v # <<>>
    [] x.t = "float" -> \E i \in 1..Len(x.v) : x.v[i] # 0 /\ (i > 1 \/ x.v[i] # 128)
    [] OTHER -> TRUE

Ok(value) == [k |-> "ok", val |-> value]
Err(e) == [k |-> "err", exc |-> e]
IsOk(r) == r.k = "ok"
IsErr(r) == r.k = "err"
Raises(r, e) == r.k = "err" /\ r.exc = e

\* raise "..." with a string: a string exception, which no except clause
\* of these files catches (Python 2.6 and later raise TypeError instead, which
\* none catches either)
AmbiguousTag == "str: Tag occurs in multiple records!"
RecordNeeded == "str: Unknown tag, record needed"
WidthMismatch == "str: The number of bytes for decoding does not match the specified word width!"

----------------------------------------------------------------------------
(* The qdb collaborator: a table of parallel columns. *)

\* the rows of column col that hold value
QDB_rows(table, col, value) ==
  {i \in 1..Len(table[col]) : table[col][i] = value}

\* query(col, value): the index of the first row holding value (Python
\* indices: the first row is 0), or False
QDB_query2(table, col, value) ==
  LET rows == QDB_rows(table, col, value)
  IN IF rows = {} THEN PyFalse
     ELSE PyInt((CHOOSE i \in rows : \A j \in rows : i <= j) - 1)

\* query(index, col): the entry of column col in row index
QDB_queryIndex(table, index, col) == table[col][index.v + 1]

\* query(col, value, col2): the entry of col2 in the first row holding value, or False
QDB_query3(table, col, value, col2) ==
  LET index == QDB_query2(table, col, value)
  IN IF index = PyFalse THEN PyFalse ELSE QDB_queryIndex(table, index, col2)

QDB_getList(table, col) == table[col]

SeqToSet(s) == {s[i] : i \in 1..Len(s)}

----------------------------------------------------------------------------
(* The blocks of a file and their records: each block has a QDB records     *)
(* (num, name, record) and each record a QDB tags (num, name, data_type).   *)
(* Both records of the Exif block are TIFF directories and define Make.     *)

Blocks == {"exif", "iptc"}

Records(b) ==
  IF b = "exif"
  THEN [num |-> <<PyInt(1), PyInt(2)>>, name |-> <<PyStr("IFD0"), PyStr("IFD1")>>]
  ELSE [num |-> <<PyInt(1), PyInt(2)>>, name |-> <<PyStr("Envelope"), PyStr("Application")>>]

Tags(b, rec_num) ==
  IF b = "exif"
  THEN IF rec_num = PyInt(1)
       THEN [num |-> <<PyInt(256), PyInt(271), PyInt(272)>>,
             name |-> <<PyStr("ImageWidth"), PyStr("Make"), PyStr("Model")>>,
             data_type |-> <<PyInt(3), PyInt(2), PyInt(2)>>]
       ELSE [num |-> <<PyInt(259), PyInt(271)>>,
             name |-> <<PyStr("Compression"), PyStr("Make")>>,
             data_type |-> <<PyInt(3), PyInt(2)>>]
  ELSE IF rec_num = PyInt(1)
       THEN [num |-> <<PyInt(5), PyInt(90)>>,
             name |-> <<PyStr("Destination"), PyStr("CodedCharacterSet")>>,
             data_type |-> <<PyInt(2), PyInt(2)>>]
       ELSE [num |-> <<PyInt(5), PyInt(25)>>,
             name |-> <<PyStr("ObjectName"), PyStr("Keywords")>>,
             data_type |-> <<PyInt(2), PyInt(2)>>]

RecNums(b) == SeqToSet(Records(b).num)

----------------------------------------------------------------------------
(* MetaInfoRecord *)

\* getTagNum: the tag number for a tag number or name, or False if the
\* record does not know it
Record_getTagNum(b, rec_num, tag) ==
  IF tag.t = "int"
  THEN Ok(IF Truthy(QDB_query2(Tags(b, rec_num), "num", tag)) THEN tag ELSE PyFalse)
  ELSE IF tag.t = "str"
  THEN Ok(QDB_query3(Tags(b, rec_num), "name", tag, "num"))
  ELSE Err("TypeError")

\* the record's tag definitions hold this tag number
Record_defines(b, rec_num, tag_num) ==
  tag_num \in SeqToSet(Tags(b, rec_num).num)

\* getTag(tag_num) or getTag(tag_num, data_type) of a derived record class:
\* the entry stored for the tag number, decoded by the explicit type when one
\* is passed and by the stored type otherwise
Record_getTag(flds, b, rec_num, gt_args) ==
  LET map == flds[b][rec_num]
  IN IF gt_args[1] \notin DOMAIN map THEN Err("KeyError")
     ELSE Ok([dt |-> IF Len(gt_args) > 1 THEN gt_args[2] ELSE map[gt_args[1]].dt,
              data |-> map[gt_args[1]].data])

\* setTag of a derived record class: validation, then the write
Record_setTagCheck(b, rec_num, tag_num, payload, check, data_type, data_count, data) ==
  IF (payload = PyNone) = (data = PyNone) THEN Err("InvalidArgument")
  ELSE IF check /\ ~Record_defines(b, rec_num, tag_num) THEN Err("KeyError")
  ELSE IF check /\ data_type # PyNone
          /\ data_type # QDB_query3(Tags(b, rec_num), "num", tag_num, "data_type")
  THEN Err("TypeMismatch")
  ELSE IF ~check /\ data_type = PyNone THEN Err("InvalidArgument")
  ELSE Ok(PyNone)

Record_setTagFields(flds, b, rec_num, tag_num, payload, check, data_type, data_count, data) ==
  LET map == flds[b][rec_num]
      entry == [dt |-> IF data_type # PyNone THEN data_type
                       ELSE QDB_query3(Tags(b, rec_num), "num", tag_num, "data_type"),
                data |-> <<IF payload # PyNone THEN payload ELSE data>>]
      new == [n \in DOMAIN map \cup {tag_num} |-> IF n = tag_num THEN entry ELSE map[n]]
  IN IF IsOk(Record_setTagCheck(b, rec_num, tag_num, payload, check, data_type, data_count, data))
     THEN [flds EXCEPT ![b][rec_num] = new]
     ELSE flds

\* removeTag of a derived record class: delete the entry if present
Record_removeTagFields(flds, b, rec_num, tag_num) ==
  LET map == flds[b][rec_num]
  IN [flds EXCEPT ![b][rec_num] = [n \in DOMAIN map \ {tag_num} |-> map[n]]]

----------------------------------------------------------------------------
(* MetaInfoBlock: resolution *)

\* __getRecordNum__: the record number for a record number or name
getRecordNum(b, record) ==
  IF record.t = "int"
  THEN IF record \in SeqToSet(QDB_getList(Records(b), "num"))
       THEN Ok(record)
       ELSE Err("ValueError")
  ELSE IF record.t = "str"
  THEN LET index == QDB_query2(Records(b), "name", record)
       IN IF Truthy(index)
          THEN Ok(QDB_queryIndex(Records(b), index, "num"))
          ELSE Err("ValueError")
  \* raise TyepError: the name is not defined
  ELSE Err("NameError")

\* the records __getRecordAndTagNum__ searches, in order
searchedRecords(b, record) ==
  IF record = PyNone THEN Ok(QDB_getList(Records(b), "num"))
  ELSE LET rn == getRecordNum(b, record)
       IN IF IsErr(rn) THEN rn ELSE Ok(<<rn.val>>)

\* the loop of __getRecordAndTagNum__ over records[1..n]: the [rec_num, tag_num]
\* pairs found, or the error getTagNum raised
RECURSIVE foundRecords(_, _, _, _)
foundRecords(b, records, n, tag) ==
  IF n = 0 THEN Ok(<<>>)
  ELSE LET before == foundRecords(b, records, n - 1, tag)
           tag_num == Record_getTagNum(b, records[n], tag)
       IN IF IsErr(before) THEN before
          ELSE IF IsErr(tag_num) THEN tag_num
          ELSE IF tag_num.val # PyFalse
          THEN Ok(Append(before.val, <<records[n], tag_num.val>>))
          ELSE before

\* a lookup that settles for the first record found
pickFound_first(found_records) ==
  IF Len(found_records) = 0 THEN Err("KeyError") ELSE Ok(found_records[1])

\* what __getRecordAndTagNum__ does with the pairs found
pickFound(found_records) ==
  IF Len(found_records) = 0 THEN Err("KeyError")
  ELSE IF Len(found_records) > 1 THEN Err(AmbiguousTag)
  ELSE Ok(found_records[1])

\* __getRecordAndTagNum__
getRecordAndTagNum(b, tag, record) ==
  LET records == searchedRecords(b, record)
  IN IF IsErr(records) THEN records
     ELSE LET found == foundRecords(b, records.val, Len(records.val), tag)
          IN IF IsErr(found) THEN found ELSE pickFound(found.val)

----------------------------------------------------------------------------
(* MetaInfoBlock: getTag, setTag, removeTag. Each gives the outcome, the    *)
(* field maps afterwards and the call delegated to a record.                *)

NoCall == [method |-> "none"]
RecordCall(rec_num, method, args) == [method |-> method, rec |-> rec_num, args |-> args]
Outcome(res, flds, c) == [res |-> res, flds |-> flds, call |-> c]

\* the arguments getTag passes on to the record's getTag
gt_args(tag_num, data_type) ==
  IF Truthy(data_type) THEN <<tag_num, tag_num>> ELSE <<tag_num>>

\* getTag from "# Get the data" on
Block_getData(flds, b, record_num, tag_num, data_type) ==
  IF Truthy(record_num)
  THEN Outcome(Record_getTag(flds, b, record_num, gt_args(tag_num, data_type)), flds,
               RecordCall(record_num, "getTag", gt_args(tag_num, data_type)))
  ELSE Outcome(Ok(PyNone), flds, NoCall)

\* getTag's handler of KeyError: an unknown tag given as a number is looked
\* for in the record given; given by name, tag_num and record_num were never
\* assigned when the handler's test reads them
Block_getTagUnknown(flds, b, tag, record, data_type) ==
  IF tag.t = "int"
  THEN LET record_num == getRecordNum(b, record)
       IN IF IsErr(record_num) THEN Outcome(record_num, flds, NoCall)
          ELSE Block_getData(flds, b, record_num.val, tag, data_type)
  ELSE Outcome(Err("UnboundLocalError"), flds, NoCall)

Block_getTag(flds, b, tag, record, data_type) ==
  LET found == getRecordAndTagNum(b, tag, record)
  IN IF IsOk(found)
     THEN Block_getData(flds, b, found.val[1], found.val[2], data_type)
     ELSE IF Raises(found, "KeyError")
     THEN Block_getTagUnknown(flds, b, tag, record, data_type)
     ELSE Outcome(found, flds, NoCall)

\* a setTag that turns the record's validation off itself
passedCheck_off(check) == FALSE

\* the check argument setTag passes on to the record's setTag
passedCheck(check) == check

\* setTag from "# Set the data." on
Block_setData(flds, b, rec_num, tag_num, payload, check, data_type, data_count, data) ==
  IF Truthy(rec_num)
  THEN Outcome(Record_setTagCheck(b, rec_num, tag_num, payload, passedCheck(check),
                                  data_type, data_count, data),
               Record_setTagFields(flds, b, rec_num, tag_num, payload, passedCheck(check),
                                   data_type, data_count, data),
               RecordCall(rec_num, "setTag",
                          <<tag_num, payload, passedCheck(check), data_type, data_count, data>>))
  ELSE Outcome(Ok(PyNone), flds, NoCall)

\* a handler that writes before it has looked at the tag's type
Block_setTagUnknown_early(flds, b, tag, payload, record, check, data_type, data_count, data) ==
  IF ~Truthy(record) THEN Outcome(Err(RecordNeeded), flds, NoCall)
  ELSE LET rec_num == getRecordNum(b, record)
       IN IF IsErr(rec_num) THEN Outcome(rec_num, flds, NoCall)
          ELSE LET written == Block_setData(flds, b, rec_num.val, tag, payload, check,
                                            data_type, data_count, data)
               IN IF tag.t = "int" THEN written
                  ELSE Outcome(Err("TypeError"), written.flds, written.call)

\* setTag's handler of KeyError
Block_setTagUnknown(flds, b, tag, payload, record, check, data_type, data_count, data) ==
  IF ~Truthy(record) THEN Outcome(Err(RecordNeeded), flds, NoCall)
  ELSE LET rec_num == getRecordNum(b, record)
       IN IF IsErr(rec_num) THEN Outcome(rec_num, flds, NoCall)
          ELSE IF tag.t = "int"
          THEN Block_setData(flds, b, rec_num.val, tag, payload, check, data_type, data_count, data)
          ELSE Outcome(Err("TypeError"), flds, NoCall)

Block_setTag(flds, b, tag, payload, record, check, data_type, data_count, data) ==
  LET found == getRecordAndTagNum(b, tag, record)
  IN IF IsOk(found)
     THEN Block_setData(flds, b, found.val[1], found.val[2], payload, check,
                        data_type, data_count, data)
     ELSE IF Raises(found, "KeyError")
     THEN Block_setTagUnknown(flds, b, tag, payload, record, check, data_type, data_count, data)
     ELSE Outcome(found, flds, NoCall)

Block_removeTag(flds, b, tag, record) ==
  LET found == getRecordAndTagNum(b, tag, record)
  IN IF IsErr(found) THEN Outcome(found, flds, NoCall)
     ELSE IF Truthy(found.val[1])
     THEN Outcome(Ok(PyNone), Record_removeTagFields(flds, b, found.val[1], found.val[2]),
                  RecordCall(found.val[1], "removeTag", <<found.val[2]>>))
     ELSE Outcome(Ok(PyNone), flds, NoCall)

\* appendTag of the IPTC block: resolved like removeTag, then the payload is
\* appended to the entry's values
Block_appendTag(flds, b, tag, payload, record) ==
  LET found == getRecordAndTagNum(b, tag, record)
  IN IF IsErr(found) THEN Outcome(found, flds, NoCall)
     ELSE LET rec_num == found.val[1]
              tag_num == found.val[2]
              map == flds[b][rec_num]
              old == IF tag_num \in DOMAIN map THEN map[tag_num].data ELSE <<>>
              entry == [dt |-> QDB_query3(Tags(b, rec_num), "num", tag_num, "data_type"),
                        data |-> Append(old, payload)]
          IN Outcome(Ok(PyNone),
                     [flds EXCEPT ![b][rec_num] =
                        [n \in DOMAIN map \cup {tag_num} |->
                           IF n = tag_num THEN entry ELSE map[n]]],
                     RecordCall(rec_num, "appendTag", <<tag_num, payload>>))

----------------------------------------------------------------------------
(* MetaInfoFile *)

BlockRef(b) == [t |-> "block", b |-> b]

\* reading self.<name>
getattr(obj, name) ==
  IF name \in DOMAIN obj THEN Ok(obj[name]) ELSE Err("AttributeError")

\* __init__
File_init == [n \in {"exif", "IPTC"} |-> PyNone]

\* self.<name> = value
setattr(obj, name, value) ==
  [n \in DOMAIN obj \cup {name} |-> IF n = name THEN value ELSE obj[n]]

\* the attribute each method tests and forwards to
ExifAttr == "exif"
IptcAttr == "iptc"

----------------------------------------------------------------------------
(* Bounds and the arguments drawn *)

\* the most entries the field maps of a file hold together
MaxEntries == 1
\* the most values one entry holds
MaxCount == 1

TagArgs == {PyInt(271), PyInt(272), PyInt(999), PyStr("Make"), PyStr("NoSuchTag")}
IptcTagArgs == {PyInt(25), PyStr("NoSuchTag")}
RecordArgs == {PyNone, PyInt(2), PyInt(3), PyStr("IFD0"), PyStr("IFD1")}
IptcRecordArgs == {PyNone, PyInt(2)}
\* the records given to __getRecordNum__ called on its own
AllRecordArgs(b) ==
  SeqToSet(Records(b).num) \cup SeqToSet(Records(b).name)
    \cup {PyNone, PyInt(3), PyStr("NoSuchRecord"), Float15}
Payloads == {PyStr("Canon")}
DataTypeArgs == {PyNone, PyInt(2)}
\* the data type given to setTag: ASCII
SetDataTypeArgs == {PyInt(2)}

RECURSIVE SumCard(_, _)
SumCard(maps, recs) ==
  IF recs = {} THEN 0
  ELSE LET r == CHOOSE x \in recs : TRUE
       IN Cardinality(DOMAIN maps[r]) + SumCard(maps, recs \ {r})

Entries(flds) == SumCard(flds["exif"], RecNums("exif")) + SumCard(flds["iptc"], RecNums("iptc"))

Counts(flds) ==
  \A b \in Blocks : \A r \in RecNums(b) : \A n \in DOMAIN flds[b][r] :
    Len(flds[b][r][n].data) <= MaxCount

Bounded(flds) == Entries(flds) <= MaxEntries /\ Counts(flds)

NoCodec == [op |-> "none"]

Call(api, op, blk, tag, record, payload, check, data_type) ==
  [api |-> api, op |-> op, blk |-> blk, tag |-> tag, record |-> record,
   payload |-> payload, check |-> check, data_type |-> data_type]

----------------------------------------------------------------------------
(* The file's life: constructed, populated, used *)

Init ==
  /\ attrs = File_init
  /\ fields = [b \in Blocks |-> [r \in RecNums(b) |-> <<>>]]
  /\ last = Call("__init__", "none", "none", PyNone, PyNone, PyNone, TRUE, PyNone)
  /\ result = Ok(PyNone)
  /\ call = NoCall
  /\ codec = NoCodec

\* a collaborator that parsed a container sets the block the methods read
LoadExif ==
  /\ attrs' = setattr(attrs, ExifAttr, BlockRef("exif"))
  /\ last' = Call("loadExif", "none", "none", PyNone, PyNone, PyNone, TRUE, PyNone)
  /\ result' = Ok(PyNone)
  /\ call' = NoCall
  /\ UNCHANGED <<fields, codec>>

LoadIPTC ==
  /\ attrs' = setattr(attrs, IptcAttr, BlockRef("iptc"))
  /\ last' = Call("loadIPTC", "none", "none", PyNone, PyNone, PyNone, TRUE, PyNone)
  /\ result' = Ok(PyNone)
  /\ call' = NoCall
  /\ UNCHANGED <<fields, codec>>

\* the block the attribute refers to, once it refers to one
BlockOf(attr) == attrs[attr].b

\* a facade method: "if (self.<attr>): <forward>", else the value absent; out
\* is the outcome of the call forwarded to the block
Facade(attr, absent, api, op, tag, record, payload, check, data_type, out) ==
  LET ref == getattr(attrs, attr)
  IN IF IsErr(ref)
     THEN /\ last' = Call(api, "none", "none", tag, record, payload, check, data_type)
          /\ result' = ref
          /\ call' = NoCall
          /\ UNCHANGED <<attrs, fields, codec>>
     ELSE IF ~Truthy(ref.val)
     THEN /\ last' = Call(api, "none", "none", tag, record, payload, check, data_type)
          /\ result' = Ok(absent)
          /\ call' = NoCall
          /\ UNCHANGED <<attrs, fields, codec>>
     ELSE /\ Bounded(out.flds)
          /\ last' = Call(api, op, ref.val.b, tag, record, payload, check, data_type)
          /\ result' = out.res
          /\ fields' = out.flds
          /\ call' = out.call
          /\ UNCHANGED <<attrs, codec>>

\* a method with no return statement returns None
ReturnsNone(out) == [out EXCEPT !.res = IF IsOk(@) THEN Ok(PyNone) ELSE @]

getExifTag ==
  \E tag \in TagArgs, record \in RecordArgs :
    Facade(ExifAttr, PyFalse, "getExifTag", "getTag", tag, record, PyNone, TRUE, PyNone,
           Block_getTag(fields, BlockOf(ExifAttr), tag, record, PyNone))

setExifTag ==
  \E tag \in TagArgs, record \in RecordArgs, payload \in Payloads,
     check \in BOOLEAN, data_type \in SetDataTypeArgs :
    Facade(ExifAttr, PyNone, "setExifTag", "setTag", tag, record, payload, check, data_type,
           ReturnsNone(Block_setTag(fields, BlockOf(ExifAttr), tag, payload, record, check,
                                    data_type, PyNone, PyNone)))

delExifTag ==
  \E tag \in TagArgs, record \in RecordArgs :
    Facade(ExifAttr, PyNone, "delExifTag", "removeTag", tag, record, PyNone, TRUE, PyNone,
           Block_removeTag(fields, BlockOf(ExifAttr), tag, record))

getIPTCTag ==
  \E tag \in IptcTagArgs, record \in IptcRecordArgs, data_type \in DataTypeArgs :
    Facade(IptcAttr, PyFalse, "getIPTCTag", "getTag", tag, record, PyNone, TRUE, data_type,
           Block_getTag(fields, BlockOf(IptcAttr), tag, record, data_type))

setIPTCTag ==
  \E tag \in IptcTagArgs, record \in IptcRecordArgs, payload \in Payloads,
     check \in BOOLEAN, data_type \in SetDataTypeArgs :
    Facade(IptcAttr, PyNone, "setIPTCTag", "setTag", tag, record, payload, check, data_type,
           ReturnsNone(Block_setTag(fields, BlockOf(IptcAttr), tag, payload, record, check,
                                    data_type, PyNone, PyNone)))

appendIPTCTag ==
  \E tag \in IptcTagArgs, record \in IptcRecordArgs, payload \in Payloads :
    Facade(IptcAttr, PyNone, "appendIPTCTag", "appendTag", tag, record, payload, TRUE, PyNone,
           ReturnsNone(Block_appendTag(fields, BlockOf(IptcAttr), tag, payload, record)))

delIPTCTag ==
  \E tag \in IptcTagArgs, record \in IptcRecordArgs :
    Facade(IptcAttr, PyNone, "delIPTCTag", "removeTag", tag, record, PyNone, TRUE, PyNone,
           Block_removeTag(fields, BlockOf(IptcAttr), tag, record))

\* the resolution methods of a block that exists, called on their own
LoadedBlocks == {b \in Blocks : \E n \in DOMAIN attrs : attrs[n] = BlockRef(b)}

BlockRecordArgs(b) == IF b = "exif" THEN RecordArgs ELSE IptcRecordArgs
BlockTagArgs(b) == IF b = "exif" THEN TagArgs ELSE IptcTagArgs

GetRecordNum ==
  \E b \in LoadedBlocks : \E record \in AllRecordArgs(b) :
    /\ last' = Call("__getRecordNum__", "__getRecordNum__", b, PyNone, record, PyNone, TRUE, PyNone)
    /\ result' = getRecordNum(b, record)
    /\ call' = NoCall
    /\ UNCHANGED <<attrs, fields, codec>>

GetRecordAndTagNum ==
  \E b \in LoadedBlocks : \E tag \in BlockTagArgs(b), record \in BlockRecordArgs(b) :
    /\ last' = Call("__getRecordAndTagNum__", "__getRecordAndTagNum__", b, tag, record,
                    PyNone, TRUE, PyNone)
    /\ result' = getRecordAndTagNum(b, tag, record)
    /\ call' = NoCall
    /\ UNCHANGED <<attrs, fields, codec>>

Next ==
  \/ LoadExif
  \/ LoadIPTC
  \/ getExifTag
  \/ setExifTag
  \/ delExifTag
  \/ getIPTCTag
  \/ setIPTCTag
  \/ appendIPTCTag
  \/ delIPTCTag
  \/ GetRecordNum
  \/ GetRecordAndTagNum

Spec == Init /\ [][Next]_vars

----------------------------------------------------------------------------
(* The byteform collaborator: one word to bytes and back. A byte string is  *)
(* a sequence of numbers 0..255.                                            *)

Reverse(seq) == [i \in 1..Len(seq) |-> seq[Len(seq) + 1 - i]]

RECURSIVE Pow256(_)
Pow256(n) == IF n = 0 THEN 1 ELSE 256 * Pow256(n - 1)

\* itob: num in num_bytes bytes, two's complement when signed
itob(num, num_bytes, is_signed, is_big_endian) ==
  IF num.t # "int" THEN Err("TypeError")
  ELSE LET top == num.v \div Pow256(num_bytes - 1)
           little == [i \in 1..num_bytes |-> (num.v \div Pow256(i - 1)) % 256]
       IN IF (is_signed /\ top \notin -128..127) \/ (~is_signed /\ top \notin 0..255)
          THEN Err("EncodingRangeError")
          ELSE Ok(IF is_big_endian THEN Reverse(little) ELSE little)

RECURSIVE UnsignedValue(_, _)
\* the number whose i-th least significant byte is little[i], for i in 1..n
UnsignedValue(little, n) ==
  IF n = 0 THEN 0 ELSE little[n] * Pow256(n - 1) + UnsignedValue(little, n - 1)

\* btoi: the number the bytes hold
btoi(bytes, is_signed, is_big_endian) ==
  LET n == Len(bytes)
      little == IF is_big_endian THEN Reverse(bytes) ELSE bytes
      top == IF is_signed /\ little[n] >= 128 THEN little[n] - 256 ELSE little[n]
  IN PyInt(top * Pow256(n - 1) + UnsignedValue(little, n - 1))

\* rtob: a rational [numerator, denominator] as two integers of half the width
rtob(rational, num_bytes, is_signed, is_big_endian) ==
  IF rational.t # "list" \/ Len(rational.v) # 2 THEN Err("TypeError")
  ELSE LET numer == itob(rational.v[1], num_bytes \div 2, is_signed, is_big_endian)
           denom == itob(rational.v[2], num_bytes \div 2, is_signed, is_big_endian)
       IN IF IsErr(numer) THEN numer
          ELSE IF IsErr(denom) THEN denom
          ELSE Ok(numer.val \o denom.val)

\* btor
btor(bytes, is_signed, is_big_endian) ==
  LET half == Len(bytes) \div 2
  IN PyList(<<btoi(SubSeq(bytes, 1, half), is_signed, is_big_endian),
              btoi(SubSeq(bytes, half + 1, Len(bytes)), is_signed, is_big_endian)>>)

\* ftob: the IEEE-754 image of a float that num_bytes bytes hold exactly
ftob(num, num_bytes, is_big_endian) ==
  IF num.t # "float" THEN Err("TypeError")
  ELSE IF Len(num.v) # num_bytes THEN Err("EncodingRangeError")
  ELSE Ok(IF is_big_endian THEN num.v ELSE Reverse(num.v))

\* btof
btof(bytes, is_big_endian) ==
  PyFloat(IF is_big_endian THEN bytes ELSE Reverse(bytes))

----------------------------------------------------------------------------
(* ifddatatypes: the descriptors *)

\* the descriptors that use DataType.encode and DataType.decode
NumericTypes == {1, 3, 4, 5, 6, 8, 9, 10, 11, 12}

word_width(num) ==
  CASE num \in {1, 2, 6, 7} -> 1
    [] num \in {3, 8} -> 2
    [] num \in {4, 9, 11} -> 4
    [] num \in {5, 10, 12} -> 8

signed(num) ==
  CASE num \in {1, 3, 4, 5} -> PyBool(FALSE)
    [] num \in {6, 8, 9, 10} -> PyBool(TRUE)
    [] num \in {11, 12} -> PyNone

\* cls.word_encoder(word, cls.word_width, cls.signed, is_big_endian) of the
\* integer and rational descriptors
word_encoder(num, word, width, is_signed, is_big_endian) ==
  IF num \in {5, 10} THEN rtob(word, width, is_signed, is_big_endian)
  ELSE itob(word, width, is_signed, is_big_endian)

\* cls.word_decoder(word, cls.signed, is_big_endian)
word_decoder(num, word, is_signed, is_big_endian) ==
  IF num \in {5, 10} THEN btor(word, is_signed, is_big_endian)
  ELSE btoi(word, is_signed, is_big_endian)

\* the branch of encode on cls.signed
encode_word(num, word, is_big_endian) ==
  IF signed(num) # PyNone
  THEN word_encoder(num, word, word_width(num), signed(num).v, is_big_endian)
  ELSE ftob(word, word_width(num), is_big_endian)

\* a decode that reads the words in the other byte order
decode_word_flipped(num, word, is_big_endian) ==
  IF signed(num) # PyNone
  THEN word_decoder(num, word, signed(num).v, ~is_big_endian)
  ELSE btof(word, ~is_big_endian)

\* the branch of decode on cls.signed
decode_word(num, word, is_big_endian) ==
  IF signed(num) # PyNone
  THEN word_decoder(num, word, signed(num).v, is_big_endian)
  ELSE btof(word, is_big_endian)

\* "If we got a single number as stream, encapsulate it in a list"
coerce(stream) ==
  IF stream.t \in {"int", "float"} THEN <<stream>> ELSE stream.v

RECURSIVE encode_words(_, _, _, _)
\* the loop of encode over words[1..n]
encode_words(num, words, n, is_big_endian) ==
  IF n = 0 THEN Ok(<<>>)
  ELSE LET before == encode_words(num, words, n - 1, is_big_endian)
           encoded_word == encode_word(num, words[n], is_big_endian)
       IN IF IsErr(before) THEN before
          ELSE IF IsErr(encoded_word) THEN encoded_word
          ELSE Ok(before.val \o encoded_word.val)

\* DataType.encode
DataType_encode(num, stream, is_big_endian) ==
  encode_words(num, coerce(stream), Len(coerce(stream)), is_big_endian)

\* byte_str[byte_num:byte_num + cls.word_width], byte_num counted from 0
slice(byte_str, byte_num, width) ==
  SubSeq(byte_str, byte_num + 1,
         IF byte_num + width <= Len(byte_str) THEN byte_num + width ELSE Len(byte_str))

\* the loop of decode over the n words from byte 0 on
decode_words(num, byte_str, n, is_big_endian) ==
  [i \in 1..n |->
     decode_word(num, slice(byte_str, (i - 1) * word_width(num), word_width(num)),
                 is_big_endian)]

\* a decode that does not check the number of bytes
width_ok_unchecked(num, byte_str) == TRUE

\* the check decode makes before its loop
width_ok(num, byte_str) == (Len(byte_str) % word_width(num)) = 0

\* DataType.decode
DataType_decode(num, byte_str, is_big_endian) ==
  IF ~width_ok(num, byte_str) THEN Err(WidthMismatch)
  ELSE Ok(decode_words(num, byte_str, Len(byte_str) \div word_width(num), is_big_endian))

NUL == 0

RECURSIVE ascii_join(_, _)
\* the loop of Ascii.encode over streams[1..n]
ascii_join(streams, n) ==
  IF n = 0 THEN <<>>
  ELSE ascii_join(streams, n - 1) \o streams[n].v \o <<NUL>>

\* Ascii.encode
Ascii_encode(streams, is_big_endian) ==
  LET list == IF streams.t = "str" THEN <<streams>> ELSE streams.v
  IN Ok(ascii_join(list, Len(list)))

RECURSIVE ascii_split(_, _)
\* the loop of Ascii.decode over byte_stream[1..n]: a null character appends
\* an empty string, any other character is added to the last string, which
\* must exist
ascii_split(byte_stream, n) ==
  IF n = 0 THEN Ok(<<>>)
  ELSE LET before == ascii_split(byte_stream, n - 1)
       IN IF IsErr(before) THEN before
          ELSE IF byte_stream[n] = NUL THEN Ok(Append(before.val, PyStr(<<>>)))
          ELSE IF before.val = <<>> THEN Err("IndexError")
          ELSE Ok([before.val EXCEPT ![Len(before.val)] =
                     PyStr(Append(@.v, byte_stream[n]))])

\* Ascii.decode
Ascii_decode(byte_stream, is_big_endian) ==
  ascii_split(byte_stream, Len(byte_stream))

\* Undefined.encode, Undefined.decode
Undefined_encode(byte_stream, is_big_endian) ==
  IF byte_stream.t # "str" THEN Err("str: You need to encode the data stream yourself")
  ELSE Ok(byte_stream.v)

Undefined_decode(byte_stream, is_big_endian) == Ok(byte_stream)

\* TYPES[num].encode, TYPES[num].decode
encode(num, stream, is_big_endian) ==
  CASE num = 2 -> Ascii_encode(stream, is_big_endian)
    [] num = 7 -> Undefined_encode(stream, is_big_endian)
    [] OTHER -> DataType_encode(num, stream, is_big_endian)

decode(num, byte_str, is_big_endian) ==
  CASE num = 2 -> Ascii_decode(byte_str, is_big_endian)
    [] num = 7 -> Undefined_decode(byte_str, is_big_endian)
    [] OTHER -> DataType_decode(num, byte_str, is_big_endian)

----------------------------------------------------------------------------
(* The codec's calls: the arguments are drawn, a descriptor's encode or      *)
(* decode is applied to them, and what encode returned is decoded again.     *)

\* the most values in a stream given to encode
MaxWords == 2
\* the most bytes in a byte string given to decode
MaxBytes == 17
\* the most characters in a string, strings in a list and bytes of text decoded
MaxStrLen == 2
MaxStrings == 2
MaxText == 4

\* the sequences over set of length at most n
RECURSIVE SeqsUpTo(_, _)
SeqsUpTo(set, n) ==
  IF n = 0 THEN {<<>>}
  ELSE LET shorter == SeqsUpTo(set, n - 1)
       IN shorter \cup {Append(q, x) : q \in {r \in shorter : Len(r) = n - 1}, x \in set}

\* values of each numeric descriptor's range ...
Values(num) ==
  CASE num = 1 -> {PyInt(0), PyInt(1), PyInt(255)}
    [] num = 3 -> {PyInt(0), PyInt(258), PyInt(65535)}
    [] num = 4 -> {PyInt(0), PyInt(16909060), PyInt(2147483647)}
    [] num = 5 -> {PyList(<<PyInt(1), PyInt(2)>>), PyList(<<PyInt(72), PyInt(1)>>),
                   PyList(<<PyInt(16909060), PyInt(3)>>)}
    [] num = 6 -> {PyInt(-128), PyInt(-1), PyInt(127)}
    [] num = 8 -> {PyInt(-32768), PyInt(-2), PyInt(258)}
    [] num = 9 -> {PyInt(-2147483647), PyInt(-1), PyInt(16909060)}
    [] num = 10 -> {PyList(<<PyInt(-1), PyInt(2)>>), PyList(<<PyInt(72), PyInt(1)>>),
                    PyList(<<PyInt(-16909060), PyInt(3)>>)}
    [] num = 11 -> {PyFloat(<<0, 0, 0, 0>>), PyFloat(<<63, 192, 0, 0>>),
                    PyFloat(<<192, 73, 15, 219>>)}
    [] num = 12 -> {PyFloat(<<0, 0, 0, 0, 0, 0, 0, 0>>), Float15,
                    PyFloat(<<192, 9, 33, 251, 84, 68, 45, 24>>)}

\* ... and values outside it
OtherValues(num) ==
  CASE num = 1 -> {PyInt(256)}
    [] num = 3 -> {PyInt(-1)}
    [] num = 6 -> {PyInt(128)}
    [] num = 8 -> {PyInt(32768)}
    [] num = 11 -> {Float15}
    [] OTHER -> {}

\* a value of the type Python calls a number: the streams encode wraps in a list
IsNumber(value) == value.t \in {"int", "float"}

Chars == {NUL, 97}
Texts == {PyStr(q) : q \in SeqsUpTo(Chars, MaxStrLen)}

\* the streams given to encode: a single value, or a list of values
Streams(num) ==
  CASE num = 2 -> Texts \cup {PyList(q) : q \in SeqsUpTo(Texts, MaxStrings)}
    [] num = 7 -> {PyStr(<<1, 2>>), PyInt(1)}
    [] OTHER -> (Values(num) \cup OtherValues(num))
                  \cup {PyList(q) : q \in SeqsUpTo(Values(num) \cup OtherValues(num), MaxWords)}

\* the bytes of the byte strings given to a numeric decode, repeating
ByteCycle == <<0, 1, 127, 2, 3>>
ByteString(n, shift) == [i \in 1..n |-> ByteCycle[((i + shift) % Len(ByteCycle)) + 1]]

ByteStrings(num) ==
  CASE num = 2 -> SeqsUpTo(Chars, MaxText)
    [] num = 7 -> {<<1, 2>>}
    [] OTHER -> {ByteString(n, shift) : n \in 0..MaxBytes, shift \in 0..2}

TypeNums == 1..12

CodecCall(op, num, is_big_endian, stream, src, out) ==
  [op |-> op, num |-> num, be |-> is_big_endian, stream |-> stream, src |-> src, out |-> out]

InitCodec ==
  /\ attrs = File_init
  /\ fields = [b \in Blocks |-> [r \in RecNums(b) |-> <<>>]]
  /\ last = Call("__init__", "none", "none", PyNone, PyNone, PyNone, TRUE, PyNone)
  /\ result = Ok(PyNone)
  /\ call = NoCall
  /\ \E num \in TypeNums, is_big_endian \in BOOLEAN :
       \/ \E stream \in Streams(num) :
            codec = CodecCall("values", num, is_big_endian, stream, PyNone, Ok(PyNone))
       \/ \E byte_str \in ByteStrings(num) :
            codec = CodecCall("bytes", num, is_big_endian, byte_str, PyNone, Ok(PyNone))

\* TYPES[num].encode(stream, is_big_endian)
Encode ==
  /\ codec.op = "values"
  /\ codec' = CodecCall("encode", codec.num, codec.be, codec.stream, PyNone,
                        encode(codec.num, codec.stream, codec.be))
  /\ UNCHANGED <<attrs, fields, last, result, call>>

\* TYPES[num].decode(byte_str, is_big_endian)
Decode ==
  /\ codec.op = "bytes"
  /\ codec' = CodecCall("decode", codec.num, codec.be, codec.stream, PyNone,
                        decode(codec.num, codec.stream, codec.be))
  /\ UNCHANGED <<attrs, fields, last, result, call>>

\* TYPES[num].decode(TYPES[num].encode(stream, is_big_endian), is_big_endian)
DecodeEncoded ==
  /\ codec.op = "encode"
  /\ IsOk(codec.out)
  /\ codec' = CodecCall("decode", codec.num, codec.be, codec.out.val, codec.stream,
                        decode(codec.num, codec.out.val, codec.be))
  /\ UNCHANGED <<attrs, fields, last, result, call>>

NextCodec ==
  \/ Encode
  \/ Decode
  \/ DecodeEncoded

SpecCodec == InitCodec /\ [][NextCodec]_vars

----------------------------------------------------------------------------
(* Properties of tag resolution, checked under Spec *)

\* the records of block b that recognize the tag: getTagNum gives a number
Recognizers(b, tag) ==
  {r \in RecNums(b) : IsOk(Record_getTagNum(b, r, tag)) /\ Record_getTagNum(b, r, tag).val # PyFalse}

\* the rows of the block's records that the record argument names, by number or by name
NamedRows(b, record) ==
  {i \in 1..Len(Records(b).num) : Records(b).num[i] = record \/ Records(b).name[i] = record}

\* the last call reached a block's getTag, setTag or removeTag, or was a lookup
BlockOps == {"getTag", "setTag", "removeTag"}
InitFields == [b \in Blocks |-> [r \in RecNums(b) |-> <<>>]]
Absent(r) == IsOk(r) /\ r.val \in {PyNone, PyFalse}

\* C1: a lookup, getTag, setTag or removeTag with no record given, for a tag that two
\* or more records of the block recognize, raises the ambiguity error: nothing is
\* returned, no record is called and no field map changes.
C1_AmbiguityRaised ==
  [][(/\ last'.op \in BlockOps \cup {"__getRecordAndTagNum__"}
      /\ last'.record = PyNone
      /\ Cardinality(Recognizers(last'.blk, last'.tag)) >= 2)
     => (/\ Raises(result', AmbiguousTag)
         /\ call' = NoCall
         /\ fields' = fields)]_vars

C1_Witness ==
  /\ last.op = "setTag"
  /\ last.record = PyNone
  /\ last.tag = PyInt(271)
  /\ Recognizers("exif", last.tag) = {PyInt(1), PyInt(2)}
  /\ Raises(result, AmbiguousTag)
  /\ Entries(fields) > 0

\* C2: with a record given, by number or by name, the lookup searches that record
\* only: it returns (that record's number, the tag's number) if the record
\* recognizes the tag and raises the unknown-tag error if it does not.
C2_PinnedLookup ==
  (last.op = "__getRecordAndTagNum__" /\ NamedRows(last.blk, last.record) # {})
  => \A i \in NamedRows(last.blk, last.record) :
       LET rec_num == Records(last.blk).num[i]
       IN IF rec_num \in Recognizers(last.blk, last.tag)
          THEN result = Ok(<<rec_num, Record_getTagNum(last.blk, rec_num, last.tag).val>>)
          ELSE Raises(result, "KeyError")

\* C3: reading a tag that no record of a present Exif block recognizes returns
\* the absent value and does not raise, with or without a record.
C3_UnknownReadsAbsent ==
  (last.op = "getTag" /\ last.blk = "exif" /\ Recognizers("exif", last.tag) = {})
  => Absent(result)

\* C4: on a freshly constructed file every tag operation of the facade returns
\* the absent value and changes nothing.
FacadeApis ==
  {"getExifTag", "setExifTag", "delExifTag", "getIPTCTag", "setIPTCTag",
   "appendIPTCTag", "delIPTCTag"}

C4_FreshFileNoOps ==
  (attrs = File_init /\ last.api \in FacadeApis)
  => (Absent(result) /\ fields = InitFields /\ call = NoCall)

\* C8: __getRecordNum__ returns the number of the record its argument names, by
\* number or by name, and raises the unknown-record error for any other argument.
C8_RecordResolution ==
  last.op = "__getRecordNum__"
  => IF NamedRows(last.blk, last.record) # {}
     THEN \A i \in NamedRows(last.blk, last.record) : result = Ok(Records(last.blk).num[i])
     ELSE Raises(result, "ValueError")

\* the records a call with this record argument searches
Searched(b, record) ==
  IF record = PyNone THEN RecNums(b)
  ELSE IF IsOk(getRecordNum(b, record)) THEN {getRecordNum(b, record).val}
  ELSE {}

\* no record searched recognizes the tag
UnknownTag(b, tag, record) == Recognizers(b, tag) \cap Searched(b, record) = {}

\* the record argument is given (true in a condition) and __getRecordNum__ resolves it
Resolves(b, record) == Truthy(record) /\ IsOk(getRecordNum(b, record))

BlockFailure(b, tag, record) ==
  \/ record = PyNone /\ Recognizers(b, tag) = {}
  \/ tag.t = "str" /\ UnknownTag(b, tag, record)
  \/ record # PyNone /\ NamedRows(b, record) = {}
  \/ record = PyNone /\ Cardinality(Recognizers(b, tag)) >= 2

\* C10: a setTag or removeTag that fails for an unknown tag with no record, an
\* unknown tag given by name, an unknown record or an ambiguous tag raises
\* before any record is called: every field map is as it was before the call.
C10_FailedWriteFrame ==
  [][(/\ last'.op \in {"setTag", "removeTag"}
      /\ BlockFailure(last'.blk, last'.tag, last'.record))
     => (/\ IsErr(result')
         /\ call' = NoCall
         /\ fields' = fields)]_vars

C10_Witness ==
  /\ last.api = "setExifTag"
  /\ last.op = "setTag"
  /\ last.tag = PyStr("NoSuchTag")
  /\ last.record = PyStr("IFD1")
  /\ ~last.check
  /\ Raises(result, "TypeError")
  /\ call = NoCall
  /\ Entries(fields) > 0

\* C11: a getTag that resolves its record delegates the read to that record,
\* which receives the tag number followed by the data type the caller supplied,
\* and the tag number alone when the caller supplied none.
C11_TypedRead ==
  (last.op = "getTag" /\ call.method = "getTag") =>
    /\ call.rec \in RecNums(last.blk)
    /\ call.args[1].t = "int"
    /\ call.args = IF Truthy(last.data_type)
                   THEN <<call.args[1], last.data_type>>
                   ELSE <<call.args[1]>>

----------------------------------------------------------------------------
(* Properties of the codec, checked under SpecCodec *)

\* the list encode makes of a stream
AsList(stream) == IF stream.t = "list" THEN stream.v ELSE <<stream>>

\* the i-th run of width bytes of a byte string
Word(byte_str, i, width) == SubSeq(byte_str, (i - 1) * width + 1, i * width)

NoNull(text) == \A i \in 1..Len(text.v) : text.v[i] # NUL
TextStream(stream) == \A i \in 1..Len(AsList(stream)) : NoNull(AsList(stream)[i])

RECURSIVE Terminated(_, _)
\* the first n strings, each followed by one null byte
Terminated(list, n) ==
  IF n = 0 THEN <<>> ELSE Terminated(list, n - 1) \o list[n].v \o <<NUL>>

\* C5: Ascii.encode of strings that hold no null byte gives each string followed
\* by one null byte, in order, and Ascii.decode of those bytes gives the strings
\* back, whatever the byte order argument.
C5_TextRoundTrip ==
  (codec.num = 2 /\ codec.op \in {"encode", "decode"}
     /\ IF codec.op = "encode" THEN TextStream(codec.stream)
        ELSE codec.src # PyNone /\ TextStream(codec.src))
  => IF codec.op = "encode"
     THEN codec.out = Ok(Terminated(AsList(codec.stream), Len(AsList(codec.stream))))
     ELSE codec.out = Ok(AsList(codec.src))

\* C6: a numeric descriptor's decode fails, with no partial result, on a byte
\* string whose length is no multiple of the word width, and otherwise gives one
\* value per word: the i-th is the decoding of the i-th run of word_width bytes.
C6_DecodeWords ==
  (codec.op = "decode" /\ codec.num \in NumericTypes)
  => LET width == word_width(codec.num)
         n == Len(codec.stream) \div width
     IN IF Len(codec.stream) % width # 0
        THEN IsErr(codec.out)
        ELSE /\ IsOk(codec.out)
             /\ Len(codec.out.val) = n
             /\ \A i \in 1..n :
                  codec.out.val[i] = decode_word(codec.num, Word(codec.stream, i, width), codec.be)

C6_Witness ==
  /\ codec.op = "decode"
  /\ codec.num = 10
  /\ codec.src = PyNone
  /\ Len(codec.stream) = 16
  /\ IsOk(codec.out)
  /\ Len(codec.out.val) = 2
  /\ codec.out.val[1] # codec.out.val[2]

\* a second witness of C6: the bytes left over fail the call
C6_Refused ==
  /\ codec.op = "decode"
  /\ codec.num = 3
  /\ Len(codec.stream) = 3
  /\ Raises(codec.out, WidthMismatch)

\* the values of a stream are all of the descriptor's range
InRange(num, stream) ==
  \A i \in 1..Len(AsList(stream)) : AsList(stream)[i] \in Values(num)

C7_Scalar ==
  /\ codec.op = "encode"
  /\ codec.num = 11
  /\ codec.stream = PyFloat(<<63, 192, 0, 0>>)
  /\ ~codec.be
  /\ codec.out = Ok(<<0, 0, 192, 63>>)

====
